---- MODULE Spec2Model ----
(***************************************************************************)
(* Host control API (glance/custom_api_extension): the authenticated       *)
(* /shutdown and /restart endpoints of host_flask.py, with the platform    *)
(* detection and command execution of flask_utils.py.                      *)
(*                                                                         *)
(* Text is a sequence of atoms.  An atom is a one-character string, or a   *)
(* literal chunk that the program never takes apart (a command line, the   *)
(* fixed part of a message).  Header values, tokens, platform names and    *)
(* process output are written character by character, so that lower(),     *)
(* strip(), startswith(), split() and "in" are computed as Python does.    *)
(***************************************************************************)
EXTENDS Integers, Sequences, FiniteSets, TLC

(***************************************************************************)
(* Python str methods                                                      *)
(***************************************************************************)

UpperCase == <<"A","B","C","D","E","F","G","H","I","J","K","L","M",
               "N","O","P","Q","R","S","T","U","V","W","X","Y","Z">>

LowerCase == <<"a","b","c","d","e","f","g","h","i","j","k","l","m",
               "n","o","p","q","r","s","t","u","v","w","x","y","z">>

\* the characters str.strip() removes
Whitespace == {" ", "\t", "\n", "\r"}

\* str.lower(): the lower-case letter of each upper-case letter
LowerOf ==
    [u \in {UpperCase[i] : i \in 1..Len(UpperCase)} |->
        LowerCase[CHOOSE i \in 1..Len(UpperCase) : UpperCase[i] = u]]

\* str.lower() on one character
LowerChar(c) == IF c \in DOMAIN LowerOf THEN LowerOf[c] ELSE c

\* str.lower()
Lower(s) == [i \in 1..Len(s) |-> LowerChar(s[i])]

\* str.startswith(p)
StartsWith(s, p) ==
    /\ Len(s) >= Len(p)
    /\ SubSeq(s, 1, Len(p)) = p

\* "sub in s"
Contains(s, sub) ==
    \E i \in 0..(Len(s) - Len(sub)) : SubSeq(s, i + 1, i + Len(sub)) = sub

\* str.strip(): drop leading and trailing whitespace
Strip(s) ==
    LET keep == {i \in 1..Len(s) : s[i] \notin Whitespace}
    IN  IF keep = {} THEN <<>>
        ELSE LET lo == CHOOSE i \in keep : \A j \in keep : i <= j
                 hi == CHOOSE i \in keep : \A j \in keep : i >= j
             IN  SubSeq(s, lo, hi)

\* s.split(sep, 1)[1] for a one-character sep that occurs in s
AfterFirst(s, sep) ==
    LET at == CHOOSE i \in 1..Len(s) :
                  /\ s[i] = sep
                  /\ \A j \in 1..(i - 1) : s[j] # sep
    IN  SubSeq(s, at + 1, Len(s))

\* s.split(sep)[0] for a one-character sep
BeforeFirst(s, sep) ==
    IF \E i \in 1..Len(s) : s[i] = sep
    THEN LET at == CHOOSE i \in 1..Len(s) :
                       /\ s[i] = sep
                       /\ \A j \in 1..(i - 1) : s[j] # sep
         IN  SubSeq(s, 1, at - 1)
    ELSE s

(***************************************************************************)
(* Python values                                                           *)
(***************************************************************************)

\* None, and a str value s
None == [some |-> FALSE, val |-> <<>>]

Some(s) == [some |-> TRUE, val |-> s]

\* truth value of an optional str: None and '' are falsy
Truthy(o) == o.some /\ o.val # <<>>

\* "a or b"
PyOr(a, b) == IF Truthy(a) THEN a ELSE b

\* dict.get(key, default) on an optional entry
GetOr(o, default) == IF o.some THEN o.val ELSE default

(***************************************************************************)
(* Text literals of the program                                            *)
(***************************************************************************)

T_bearer_sp == <<"b","e","a","r","e","r"," ">>

T_linux == <<"l","i","n","u","x">>

T_linux_dash == <<"l","i","n","u","x","-">>

T_wsl == <<"w","s","l">>

T_darwin == <<"d","a","r","w","i","n">>

T_windows == <<"w","i","n","d","o","w","s">>

T_microsoft == <<"m","i","c","r","o","s","o","f","t">>

(***************************************************************************)
(* flask_utils.py                                                          *)
(***************************************************************************)

\* mutant: the distribution is looked up before the WSL check
detect_platform_DistroFirst(h) ==
    LET system  == Lower(h.system)
        release == Lower(h.release)
    IN  IF system = T_linux
        THEN LET distro == IF h.has_distro
                           THEN h.distro_id
                           ELSE BeforeFirst(h.platform, "-")
             IN  IF distro # <<>> THEN T_linux_dash \o distro
                 ELSE IF Contains(release, T_microsoft) THEN T_wsl
                 ELSE T_linux
        ELSE system

\* h: what platform.system(), platform.release(), distro.id() and
\* platform.platform() report on this host; has_distro tells whether the
\* distro package could be imported (get_distro_id is not None)
detect_platform(h) ==
    LET system  == Lower(h.system)
        release == Lower(h.release)
    IN  IF system = T_linux
        THEN IF Contains(release, T_microsoft)
             THEN T_wsl
             ELSE LET distro == IF h.has_distro
                                THEN h.distro_id
                                ELSE BeforeFirst(h.platform, "-")
                  IN  IF distro # <<>> THEN T_linux_dash \o distro ELSE T_linux
        ELSE system

\* the exception classes that matter to run_command, with their base classes
Bases(cls) ==
    CASE cls = "CalledProcessError" -> {"CalledProcessError", "SubprocessError", "Exception"}
      [] cls = "FileNotFoundError"  -> {"FileNotFoundError", "OSError", "Exception"}
      [] cls = "OSError"            -> {"OSError", "Exception"}
      [] cls = "RuntimeError"       -> {"RuntimeError", "Exception"}
      [] cls = "UnicodeDecodeError" -> {"UnicodeDecodeError", "ValueError", "Exception"}
      [] cls = "ValueError"         -> {"ValueError", "Exception"}
      [] OTHER                      -> {cls}

\* str(e) of subprocess.CalledProcessError(returncode, cmd)
StrCalledProcessError(cmd, returncode) ==
    IF returncode < 0
    THEN <<"Command '">> \o cmd \o <<"' died with signal ", ToString(0 - returncode), ".">>
    ELSE <<"Command '">> \o cmd \o <<"' returned non-zero exit status ",
                                     ToString(returncode), ".">>

\* subprocess.run(command, shell=True, check=True, capture_output=True,
\* text=True), given what the process did (p): the CompletedProcess it
\* returns, or the exception it raises
subprocess_run(command, p) ==
    IF p.kind = "exit"
    THEN IF p.returncode # 0
         THEN [raised |-> TRUE, exc |-> "CalledProcessError",
               msg |-> StrCalledProcessError(command, p.returncode),
               stdout |-> p.stdout, returncode |-> p.returncode]
         ELSE [raised |-> FALSE, exc |-> "", msg |-> <<>>,
               stdout |-> p.stdout, returncode |-> p.returncode]
    ELSE [raised |-> TRUE, exc |-> p.exc, msg |-> p.msg,
          stdout |-> <<>>, returncode |-> 0]

\* mutant: one handler for every exception, all failures collapsed to code 1
run_command_CatchAll(command, p) ==
    LET result == subprocess_run(command, p)
    IN  IF ~result.raised
        THEN [raised |-> FALSE, exc |-> "", text |-> result.stdout,
              code |-> result.returncode]
        ELSE [raised |-> FALSE, exc |-> "", text |-> result.msg, code |-> 1]

\* run_command(command): the (text, code) pair it returns, or the exception
\* that leaves it
run_command(command, p) ==
    LET result == subprocess_run(command, p)
    IN  IF ~result.raised
        THEN [raised |-> FALSE, exc |-> "", text |-> result.stdout,
              code |-> result.returncode]
        ELSE IF "CalledProcessError" \in Bases(result.exc)
        THEN [raised |-> FALSE, exc |-> "", text |-> result.msg,
              code |-> result.returncode]
        ELSE IF "OSError" \in Bases(result.exc) \/ "RuntimeError" \in Bases(result.exc)
        THEN [raised |-> FALSE, exc |-> "", text |-> result.msg, code |-> 1]
        ELSE [raised |-> TRUE, exc |-> result.exc, text |-> result.msg, code |-> 0]

(***************************************************************************)
(* host_flask.py                                                           *)
(***************************************************************************)

\* mutant: the hook marks only the responses that report success
add_private_network_header_OkOnly(response) ==
    IF response.status # 200 THEN response
    ELSE [response EXCEPT !.headers =
        [k \in (DOMAIN response.headers) \cup {"Access-Control-Allow-Private-Network"} |->
            IF k = "Access-Control-Allow-Private-Network" THEN "true"
            ELSE response.headers[k]]]

\* after_request hook
add_private_network_header(response) ==
    [response EXCEPT !.headers =
        [k \in (DOMAIN response.headers) \cup {"Access-Control-Allow-Private-Network"} |->
            IF k = "Access-Control-Allow-Private-Network" THEN "true"
            ELSE response.headers[k]]]

\* jsonify(body), status
jsonify(body, status) ==
    [status |-> status, body |-> body,
     headers |-> [k \in {"Content-Type"} |-> "application/json"]]

\* mutant: the query parameter is tried before the form field
extract_token_QueryFirst(req) ==
    LET auth_header == GetOr(req.authorization, <<>>)
    IN  IF auth_header # <<>>
        THEN IF StartsWith(Lower(auth_header), T_bearer_sp)
             THEN Some(Strip(AfterFirst(auth_header, " ")))
             ELSE Some(Strip(auth_header))
        ELSE PyOr(req.args, req.form)

\* req: the optional Authorization header, form field 'token' and query
\* parameter 'token' of the request
extract_token_from_request(req) ==
    LET auth_header == GetOr(req.authorization, <<>>)
    IN  IF auth_header # <<>>
        THEN IF StartsWith(Lower(auth_header), T_bearer_sp)
             THEN Some(Strip(AfterFirst(auth_header, " ")))
             ELSE Some(Strip(auth_header))
        ELSE PyOr(req.form, req.args)

\* mutant: the check for a missing token is left out
token_required_NoMissing(req, environ) ==
    LET token == extract_token_from_request(req)
        valid_token == GetOr(environ, <<>>)
    IN  IF GetOr(token, <<>>) # valid_token THEN "invalid" ELSE "authenticated"

\* mutant: only a credential that is None counts as missing
token_required_NoneOnly(req, environ) ==
    LET token == extract_token_from_request(req)
    IN  IF ~token.some
        THEN "missing"
        ELSE LET valid_token == GetOr(environ, <<>>)
             IN  IF token.val # valid_token THEN "invalid" ELSE "authenticated"

\* mutant: the secret is the one the environment held at import
token_required_AtImport(req, environ) ==
    LET token == extract_token_from_request(req)
    IN  IF ~Truthy(token)
        THEN "missing"
        ELSE LET valid_token == <<"t","o","k">>
             IN  IF token.val # valid_token THEN "invalid" ELSE "authenticated"

\* the decorator's check: which of its three returns is taken
token_required(req, environ) ==
    LET token == extract_token_from_request(req)
    IN  IF ~Truthy(token)
        THEN "missing"
        ELSE LET valid_token == GetOr(environ, <<>>)
             IN  IF token.val # valid_token THEN "invalid" ELSE "authenticated"

\* the resolvers return Some(command) or None
get_shutdown_command(platform_id) ==
    IF platform_id \in {T_linux, T_wsl, T_darwin} \/ StartsWith(platform_id, T_linux)
    THEN Some(<<"sudo shutdown -h now">>)
    ELSE IF platform_id = T_windows
    THEN Some(<<"shutdown /s /f /t 0">>)
    ELSE None

\* mutant: Windows restart without the /f switch
get_restart_command_NoForce(platform_id) ==
    IF platform_id \in {T_linux, T_wsl, T_darwin} \/ StartsWith(platform_id, T_linux)
    THEN Some(<<"shutdown -r now">>)
    ELSE IF platform_id = T_windows
    THEN Some(<<"shutdown /r /t 0">>)
    ELSE None

get_restart_command(platform_id) ==
    IF platform_id \in {T_linux, T_wsl, T_darwin} \/ StartsWith(platform_id, T_linux)
    THEN Some(<<"shutdown -r now">>)
    ELSE IF platform_id = T_windows
    THEN Some(<<"shutdown /r /f /t 0">>)
    ELSE None

(***************************************************************************)
(* Inputs                                                                  *)
(***************************************************************************)

\* requests served in one run of the server
MaxRequests == 2

\* request-handling threads of the server
Threads == {1, 2}

\* the threads at work when requests are served one after the other
Sequential == {1}

T_tok == <<"t","o","k">>

T_tok_padded == <<"t","o","k"," ">>

T_bearer_x == T_bearer_sp \o <<"x">>

T_wrong == <<"b","a","d">>

T_Bearer_sp == <<"B","e","a","r","e","r"," ">>

\* values of MY_SECRET_TOKEN in os.environ: unset, or set
Environs == {None, Some(T_tok), Some(T_tok_padded), Some(T_bearer_x)}

\* credentials a client may send
Credentials == {T_tok, T_tok_padded, T_bearer_x, T_wrong}

\* Authorization header: absent, empty, blank, raw or Bearer-prefixed
AuthorizationValues ==
    {None, Some(<<>>), Some(<<" ">>), Some(T_Bearer_sp),
     Some(<<"B","E","A","R","E","R"," ">> \o T_tok)}
        \cup {Some(c) : c \in Credentials}
        \cup {Some(T_Bearer_sp \o c) : c \in Credentials}

\* form field 'token' and query parameter 'token': absent, empty or a credential
FieldValues == {None, Some(<<>>)} \cup {Some(c) : c \in Credentials}

Requests ==
    [path : {"/shutdown", "/restart"}, authorization : AuthorizationValues,
     form : FieldValues, args : FieldValues]

Host(system, release, has_distro, distro_id, platform) ==
    [system |-> system, release |-> release, has_distro |-> has_distro,
     distro_id |-> distro_id, platform |-> platform]

T_Linux == <<"L","i","n","u","x">>

T_release == <<"5",".","1","5">>

Hosts ==
    { Host(T_Linux, T_release, TRUE, <<"u","b","u","n","t","u">>, T_Linux \o <<"-">> \o T_release),
      Host(T_Linux, T_release, TRUE, <<"d","e","b","i","a","n">>, T_Linux \o <<"-">> \o T_release),
      Host(T_Linux, T_release, TRUE, <<>>, T_Linux \o <<"-">> \o T_release),
      Host(T_Linux, T_release \o <<"-","M","i","c","r","o","s","o","f","t">>, TRUE,
           <<"u","b","u","n","t","u">>, T_Linux),
      Host(<<"D","a","r","w","i","n">>, <<"2","3">>, TRUE, <<>>, <<"m","a","c","O","S">>),
      Host(<<"W","i","n","d","o","w","s">>, <<"1","0">>, TRUE, <<>>, <<"W","i","n","d","o","w","s">>),
      Host(<<"F","r","e","e","B","S","D">>, <<"1","4">>, TRUE, <<>>, <<"F","r","e","e","B","S","D">>),
      Host(T_Linux \o <<"M","i","n","t">>, T_release, TRUE, <<>>, T_Linux) }

\* what the shell process does: exits with a code and some output, or
\* subprocess.run raises before or while collecting it
ExitCodes == {0, 127, -9}

Stdouts == {<<>>, <<" ","o","k","\n">>}

Messages == {<<"P","r","o","c","e","s","s"," ","e","r","r","o","r">>, <<" ","b","o","o","m","\n">>}

Raisable == {"OSError", "FileNotFoundError", "RuntimeError", "UnicodeDecodeError"}

Processes ==
    [kind : {"exit"}, returncode : ExitCodes, stdout : Stdouts, exc : {""}, msg : {<<>>}]
        \cup [kind : {"raise"}, returncode : {0}, stdout : {<<>>}, exc : Raisable, msg : Messages]

(***************************************************************************)
(* State                                                                   *)
(***************************************************************************)

VARIABLES
    environ,      \* os.environ['MY_SECRET_TOKEN'], optional
    host,         \* what the platform module reports
    pc,           \* per thread: the request's state (START = no request)
    req,          \* per thread: the request being handled
    auth,         \* per thread: outcome of token_required
    platform_id,  \* per thread: local of the view function
    command,      \* per thread: local of the view function
    proc,         \* per thread: what the launched process did
    result,       \* per thread: what run_command gave back
    response,     \* per thread: the response of the request
    calls,        \* every call of subprocess.run so far
    served,       \* number of requests answered
    limiter,      \* the Limiter: whether it is enabled, and its storage
    stack         \* the run of manage_stack.py, if there is one

vars == <<environ, host, pc, req, auth, platform_id, command, proc, result,
          response, calls, served, limiter, stack>>

\* the routes of the application
Routes == {"/", "/shutdown", "/restart"}

\* the limit of each route: "5 per minute"
RouteLimit == 5

\* the Limiter as the test client has it: RATELIMIT_ENABLED is False
LimiterOff == [enabled |-> FALSE, hits |-> [p \in Routes |-> 0]]

\* the Limiter as app.run has it, with nothing counted yet
LimiterOn == [enabled |-> TRUE, hits |-> [p \in Routes |-> 0]]

\* manage_stack.py is not running
NoStack ==
    [pc |-> "off", skip_deps |-> FALSE, restart_only |-> FALSE, clean_shutdown |-> FALSE,
     gpu_file |-> FALSE, use_gpu_override |-> FALSE, running |-> FALSE,
     log |-> <<>>, exit |-> 0, traceback |-> FALSE]

NoRequest == [path |-> "", authorization |-> None, form |-> None, args |-> None]

NoProcess == [kind |-> "", returncode |-> 0, stdout |-> <<>>, exc |-> "", msg |-> <<>>]

NoResult == [raised |-> FALSE, exc |-> "", text |-> <<>>, code |-> 0]

NoResponse == [status |-> 0, body |-> [none |-> TRUE], headers |-> [k \in {} |-> ""]]

Terminal == {"REJECTED", "UNSUPPORTED", "SUCCESS", "FAILURE", "FAULT", "LIMITED", "OK"}

Init ==
    /\ environ \in Environs
    /\ host \in Hosts
    /\ pc = [r \in Threads |-> "START"]
    /\ req = [r \in Threads |-> NoRequest]
    /\ auth = [r \in Threads |-> "none"]
    /\ platform_id = [r \in Threads |-> <<>>]
    /\ command = [r \in Threads |-> None]
    /\ proc = [r \in Threads |-> NoProcess]
    /\ result = [r \in Threads |-> NoResult]
    /\ response = [r \in Threads |-> NoResponse]
    /\ calls = <<>>
    /\ served = 0
    /\ limiter = LimiterOff
    /\ stack = NoStack

(***************************************************************************)
(* The view functions                                                      *)
(***************************************************************************)

\* Flask's answer to an exception that leaves a view function
InternalServerError ==
    [status |-> 500, body |-> [html |-> <<"Internal Server Error">>],
     headers |-> [k \in {"Content-Type"} |-> "text/html"]]

\* mutant: the view function runs although the token was found invalid
Enter_NoGate(r, q, resolved, tag) ==
    LET outcome == token_required(q, environ)
    IN  /\ req' = [req EXCEPT ![r] = q]
        /\ auth' = [auth EXCEPT ![r] = outcome]
        /\ UNCHANGED <<environ, host, proc, result, served, stack>>
        /\ IF outcome = "missing"
           THEN /\ pc' = [pc EXCEPT ![r] = "REJECTED"]
                /\ response' = [response EXCEPT ![r] = add_private_network_header(
                        jsonify([message |-> <<"Token is missing!">>], 403))]
                /\ UNCHANGED <<platform_id, command, calls>>
           ELSE /\ platform_id' = [platform_id EXCEPT ![r] = tag]
                /\ command' = [command EXCEPT ![r] = resolved]
                /\ IF ~Truthy(resolved)
                   THEN /\ pc' = [pc EXCEPT ![r] = "UNSUPPORTED"]
                        /\ response' = [response EXCEPT ![r] = add_private_network_header(
                                jsonify([message |-> <<"Unsupported platform: ">> \o tag], 400))]
                        /\ UNCHANGED calls
                   ELSE /\ pc' = [pc EXCEPT ![r] = "EXECUTE"]
                        /\ calls' = Append(calls, [thread |-> r, path |-> q.path,
                                                  command |-> resolved.val])
                        /\ UNCHANGED response

\* mutant: a view that finds the other thread's command still running does
\* not start the command again
Enter_Coalesced(r, q, resolved, tag) ==
    LET outcome == token_required(q, environ)
    IN  /\ req' = [req EXCEPT ![r] = q]
        /\ auth' = [auth EXCEPT ![r] = outcome]
        /\ UNCHANGED <<environ, host, proc, result, served, stack>>
        /\ IF outcome = "missing"
           THEN /\ pc' = [pc EXCEPT ![r] = "REJECTED"]
                /\ response' = [response EXCEPT ![r] = add_private_network_header(
                        jsonify([message |-> <<"Token is missing!">>], 403))]
                /\ UNCHANGED <<platform_id, command, calls>>
           ELSE IF outcome = "invalid"
           THEN /\ pc' = [pc EXCEPT ![r] = "REJECTED"]
                /\ response' = [response EXCEPT ![r] = add_private_network_header(
                        jsonify([message |-> <<"Invalid token!">>], 403))]
                /\ UNCHANGED <<platform_id, command, calls>>
           ELSE /\ platform_id' = [platform_id EXCEPT ![r] = tag]
                /\ command' = [command EXCEPT ![r] = resolved]
                /\ IF ~Truthy(resolved)
                   THEN /\ pc' = [pc EXCEPT ![r] = "UNSUPPORTED"]
                        /\ response' = [response EXCEPT ![r] = add_private_network_header(
                                jsonify([message |-> <<"Unsupported platform: ">> \o tag], 400))]
                        /\ UNCHANGED calls
                   ELSE /\ pc' = [pc EXCEPT ![r] = "EXECUTE"]
                        /\ calls' = IF \E t \in Threads : t # r /\ pc[t] = "EXECUTE"
                                    THEN calls
                                    ELSE Append(calls, [thread |-> r, path |-> q.path,
                                                        command |-> resolved.val])
                        /\ UNCHANGED response

\* a request q arrives on thread r; the decorated view runs up to the point
\* where run_command has started the process.  resolve is the command the
\* route's resolver gives for the detected platform.
Enter(r, q, resolved, tag) ==
    LET outcome == token_required(q, environ)
    IN  /\ req' = [req EXCEPT ![r] = q]
        /\ auth' = [auth EXCEPT ![r] = outcome]
        /\ UNCHANGED <<environ, host, proc, result, served, stack>>
        /\ IF outcome = "missing"
           THEN /\ pc' = [pc EXCEPT ![r] = "REJECTED"]
                /\ response' = [response EXCEPT ![r] = add_private_network_header(
                        jsonify([message |-> <<"Token is missing!">>], 403))]
                /\ UNCHANGED <<platform_id, command, calls>>
           ELSE IF outcome = "invalid"
           THEN /\ pc' = [pc EXCEPT ![r] = "REJECTED"]
                /\ response' = [response EXCEPT ![r] = add_private_network_header(
                        jsonify([message |-> <<"Invalid token!">>], 403))]
                /\ UNCHANGED <<platform_id, command, calls>>
           ELSE /\ platform_id' = [platform_id EXCEPT ![r] = tag]
                /\ command' = [command EXCEPT ![r] = resolved]
                /\ IF ~Truthy(resolved)
                   THEN /\ pc' = [pc EXCEPT ![r] = "UNSUPPORTED"]
                        /\ response' = [response EXCEPT ![r] = add_private_network_header(
                                jsonify([message |-> <<"Unsupported platform: ">> \o tag], 400))]
                        /\ UNCHANGED calls
                   ELSE /\ pc' = [pc EXCEPT ![r] = "EXECUTE"]
                        /\ calls' = Append(calls, [thread |-> r, path |-> q.path,
                                                  command |-> resolved.val])
                        /\ UNCHANGED response

\* mutant: the executor's text goes into the response untrimmed
Leave_Untrimmed(r, p, failed, issued) ==
    LET res == run_command(command[r].val, p)
    IN  /\ proc' = [proc EXCEPT ![r] = p]
        /\ result' = [result EXCEPT ![r] = res]
        /\ UNCHANGED <<environ, host, req, auth, platform_id, command, calls, served,
                       limiter, stack>>
        /\ IF res.raised
           THEN /\ pc' = [pc EXCEPT ![r] = "FAULT"]
                /\ response' = [response EXCEPT ![r] =
                        add_private_network_header(InternalServerError)]
           ELSE IF res.code # 0
           THEN /\ pc' = [pc EXCEPT ![r] = "FAILURE"]
                /\ response' = [response EXCEPT ![r] = add_private_network_header(
                        jsonify([message |-> failed, error |-> res.text], 500))]
           ELSE /\ pc' = [pc EXCEPT ![r] = "SUCCESS"]
                /\ response' = [response EXCEPT ![r] = add_private_network_header(
                        jsonify([message |-> issued, platform |-> platform_id[r]], 200))]

\* the process of thread r ends as p; run_command returns and the view maps
\* its result to the response
Leave(r, p, failed, issued) ==
    LET res == run_command(command[r].val, p)
    IN  /\ proc' = [proc EXCEPT ![r] = p]
        /\ result' = [result EXCEPT ![r] = res]
        /\ UNCHANGED <<environ, host, req, auth, platform_id, command, calls, served,
                       limiter, stack>>
        /\ IF res.raised
           THEN /\ pc' = [pc EXCEPT ![r] = "FAULT"]
                /\ response' = [response EXCEPT ![r] =
                        add_private_network_header(InternalServerError)]
           ELSE IF res.code # 0
           THEN /\ pc' = [pc EXCEPT ![r] = "FAILURE"]
                /\ response' = [response EXCEPT ![r] = add_private_network_header(
                        jsonify([message |-> failed, error |-> Strip(res.text)], 500))]
           ELSE /\ pc' = [pc EXCEPT ![r] = "SUCCESS"]
                /\ response' = [response EXCEPT ![r] = add_private_network_header(
                        jsonify([message |-> issued, platform |-> platform_id[r]], 200))]

\* Flask's answer to the RateLimitExceeded the Limiter raises
TooManyRequests ==
    [status |-> 429, body |-> [html |-> <<"Too Many Requests">>],
     headers |-> [k \in {"Content-Type"} |-> "text/html"]]

\* mutant: the limit is compared one request late
OverLimit_OneLate(n) == n > RouteLimit + 1

\* whether the n-th request of a route's window is over the route's limit
OverLimit(n) == n > RouteLimit

\* the Limiter, before the view of request q runs on thread r: it counts the
\* request in the window of its route and lets the view run if the count is
\* within the limit
Limit(r, q, view) ==
    IF ~limiter.enabled
    THEN /\ UNCHANGED limiter
         /\ view
    ELSE /\ limiter' = [limiter EXCEPT !.hits[q.path] = @ + 1]
         /\ IF OverLimit(limiter.hits[q.path] + 1)
            THEN /\ pc' = [pc EXCEPT ![r] = "LIMITED"]
                 /\ req' = [req EXCEPT ![r] = q]
                 /\ response' = [response EXCEPT ![r] =
                        add_private_network_header(TooManyRequests)]
                 /\ UNCHANGED <<environ, host, auth, platform_id, command, proc,
                                result, calls, served, stack>>
            ELSE view

\* a request arrives on thread r when max requests have not yet arrived
Arrives(r, max) ==
    /\ pc[r] = "START"
    /\ served + Cardinality({t \in Threads : pc[t] # "START"}) < max

\* GET /
index_of(r, max) ==
    /\ Arrives(r, max)
    /\ LET q == [path |-> "/", authorization |-> None, form |-> None, args |-> None]
       IN  Limit(r, q,
                 /\ pc' = [pc EXCEPT ![r] = "OK"]
                 /\ req' = [req EXCEPT ![r] = q]
                 /\ response' = [response EXCEPT ![r] = add_private_network_header(
                        [status |-> 200, body |-> [text |-> <<"Hello, World!">>],
                         headers |-> [k \in {"Content-Type"} |-> "text/html"]])]
                 /\ UNCHANGED <<environ, host, auth, platform_id, command, proc,
                                result, calls, served, stack>>)

\* POST /shutdown, the request drawn from Q
shutdown_of(r, Q, max) ==
    /\ Arrives(r, max)
    /\ \E q \in Q :
        /\ q.path = "/shutdown"
        /\ Limit(r, q, Enter(r, q, get_shutdown_command(detect_platform(host)),
                             detect_platform(host)))

shutdown(r) == shutdown_of(r, Requests, MaxRequests)

shutdown_returns(r) ==
    /\ pc[r] = "EXECUTE"
    /\ req[r].path = "/shutdown"
    /\ \E p \in Processes :
        Leave(r, p, <<"Failed to shut down">>, <<"Shutdown command issued">>)

\* POST /restart
restart_of(r, Q, max) ==
    /\ Arrives(r, max)
    /\ \E q \in Q :
        /\ q.path = "/restart"
        /\ Limit(r, q, Enter(r, q, get_restart_command(detect_platform(host)),
                             detect_platform(host)))

restart(r) == restart_of(r, Requests, MaxRequests)

restart_returns(r) ==
    /\ pc[r] = "EXECUTE"
    /\ req[r].path = "/restart"
    /\ \E p \in Processes :
        Leave(r, p, <<"Failed to restart">>, <<"Restart command issued">>)

\* mutant: a request whose command is still running is given up and answered
Respond_GivenUp(r) ==
    /\ pc[r] \in Terminal \cup {"EXECUTE"}
    /\ pc' = [pc EXCEPT ![r] = "START"]
    /\ req' = [req EXCEPT ![r] = NoRequest]
    /\ auth' = [auth EXCEPT ![r] = "none"]
    /\ platform_id' = [platform_id EXCEPT ![r] = <<>>]
    /\ command' = [command EXCEPT ![r] = None]
    /\ proc' = [proc EXCEPT ![r] = NoProcess]
    /\ result' = [result EXCEPT ![r] = NoResult]
    /\ response' = [response EXCEPT ![r] = NoResponse]
    /\ served' = served + 1
    /\ UNCHANGED <<environ, host, calls, limiter, stack>>

\* the response of thread r has gone out; the thread takes the next request
Respond(r) ==
    /\ pc[r] \in Terminal
    /\ pc' = [pc EXCEPT ![r] = "START"]
    /\ req' = [req EXCEPT ![r] = NoRequest]
    /\ auth' = [auth EXCEPT ![r] = "none"]
    /\ platform_id' = [platform_id EXCEPT ![r] = <<>>]
    /\ command' = [command EXCEPT ![r] = None]
    /\ proc' = [proc EXCEPT ![r] = NoProcess]
    /\ result' = [result EXCEPT ![r] = NoResult]
    /\ response' = [response EXCEPT ![r] = NoResponse]
    /\ served' = served + 1
    /\ UNCHANGED <<environ, host, calls, limiter, stack>>

Next ==
    \E r \in Sequential :
        \/ shutdown(r)
        \/ shutdown_returns(r)
        \/ restart(r)
        \/ restart_returns(r)
        \/ Respond(r)

Spec == Init /\ [][Next]_vars

(***************************************************************************)
(* Properties                                                              *)
(***************************************************************************)

\* threads with a request in hand
Busy == {r \in Threads : pc[r] # "START"}

\* states a request can be in only after its view function has run
PastAuth == {"UNSUPPORTED", "EXECUTE", "SUCCESS", "FAILURE", "FAULT"}

Message(r) == response[r].body.message

Secret == GetOr(environ, <<>>)

\* a request with the given places filled and the others absent
Only(path, authorization, form, args) ==
    [path |-> path, authorization |-> authorization, form |-> form, args |-> args]

\* C1: run_command is invoked for a request only if token_required found it
\* authenticated, and a request rejected as missing or invalid has no
\* platform tag, no command, no process and no result.
C1_Gated ==
    \A r \in Busy :
        /\ pc[r] \in PastAuth => auth[r] = "authenticated"
        /\ auth[r] \in {"missing", "invalid"} =>
            /\ pc[r] = "REJECTED"
            /\ platform_id[r] = <<>>
            /\ command[r] = None
            /\ proc[r] = NoProcess
            /\ result[r] = NoResult

C1_CallStep ==
    calls' # calls =>
        /\ Len(calls') = Len(calls) + 1
        /\ SubSeq(calls', 1, Len(calls)) = calls
        /\ LET c == calls'[Len(calls')]
           IN  /\ pc[c.thread] = "START"
               /\ pc'[c.thread] = "EXECUTE"
               /\ auth'[c.thread] = "authenticated"
               /\ c.path = req'[c.thread].path

C1_OnlyAuthenticatedExecutes == [](C1_Gated) /\ [][C1_CallStep]_vars

\* a second request is rejected after a first one has run its command
C1_Witness ==
    \E r \in Busy : pc[r] = "REJECTED" /\ served = 1 /\ Len(calls) = 1

\* the credential a request presents, by the order of places alone: the
\* Authorization header when one is present (less a "Bearer " prefix in any
\* case, trimmed), else the form field when present, else the query parameter
Presented(q) ==
    IF q.authorization.some
    THEN LET h == q.authorization.val
         IN  Some(Strip(IF StartsWith(Lower(h), T_bearer_sp)
                        THEN SubSeq(h, Len(T_bearer_sp) + 1, Len(h))
                        ELSE h))
    ELSE IF q.form.some THEN q.form
    ELSE q.args

Rejected(r, text) ==
    /\ pc[r] = "REJECTED"
    /\ response[r].status = 403
    /\ DOMAIN response[r].body = {"message"}
    /\ Message(r) = text

BearerHeader(path, c) == Only(path, Some(T_Bearer_sp \o c), None, None)

RawHeader(path, c) == Only(path, Some(c), None, None)

FormField(path, c) == Only(path, None, Some(c), None)

QueryParam(path, c) == Only(path, None, None, Some(c))

Authenticated(r) == auth[r] = "authenticated" /\ pc[r] \in PastAuth

\* C3 as stated: the non-empty secret, in any one of the four places, is
\* authenticated.
C3_AnySecretInAnyPlace ==
    \A r \in Busy :
        LET path == req[r].path
        IN  (/\ Secret # <<>>
             /\ req[r] \in {BearerHeader(path, Secret), RawHeader(path, Secret),
                            FormField(path, Secret), QueryParam(path, Secret)})
            => Authenticated(r)

\* where the code does agree with C3: the non-empty secret is authenticated
\* from the form field and from the query parameter; from the Authorization
\* header it is authenticated when it has no leading or trailing whitespace
\* and, sent without the Bearer prefix, does not itself begin with "bearer ".
SecretInOnePlace ==
    \A r \in Busy :
        LET path == req[r].path
        IN  /\ (/\ Secret # <<>>
                /\ req[r] \in {FormField(path, Secret), QueryParam(path, Secret)})
               => Authenticated(r)
            /\ (/\ Secret # <<>>
                /\ Strip(Secret) = Secret
                /\ req[r] = BearerHeader(path, Secret))
               => Authenticated(r)
            /\ (/\ Secret # <<>>
                /\ Strip(Secret) = Secret
                /\ ~StartsWith(Lower(Secret), T_bearer_sp)
                /\ req[r] = RawHeader(path, Secret))
               => Authenticated(r)

\* the secret sent as the whole Authorization header has passed
SecretInRawHeader ==
    \E r \in Busy :
        /\ Secret = T_tok
        /\ req[r] = RawHeader(req[r].path, T_tok)
        /\ Authenticated(r)

\* C4 as stated: a header that is present decides alone; the form field is
\* consulted only when no header is present, the query parameter only when
\* the form field is absent too.
C4_FirstPresentPlaceDecides ==
    \A r \in Busy :
        LET q == req[r]
        IN  /\ q.authorization.some =>
                auth[r] = token_required(Only(q.path, q.authorization, None, None), environ)
            /\ (~q.authorization.some /\ q.form.some) =>
                auth[r] = token_required(Only(q.path, None, q.form, None), environ)
            /\ (~q.authorization.some /\ ~q.form.some) =>
                auth[r] = token_required(Only(q.path, None, None, q.args), environ)

\* C4 amended: a non-empty Authorization header decides alone (a wrong value
\* is invalid whatever the form field and query parameter hold); the form
\* field is consulted only when the header is absent or empty, and then a
\* non-empty form field decides alone; the query parameter is consulted only
\* when the form field is absent or empty too.
C4_FirstNonEmptyPlaceDecides ==
    \A r \in Busy :
        LET q == req[r]
        IN  /\ Truthy(q.authorization) =>
                auth[r] = token_required(Only(q.path, q.authorization, None, None), environ)
            /\ (~Truthy(q.authorization) /\ Truthy(q.form)) =>
                auth[r] = token_required(Only(q.path, None, q.form, None), environ)
            /\ (~Truthy(q.authorization) /\ ~Truthy(q.form)) =>
                auth[r] = token_required(Only(q.path, None, None, q.args), environ)
            /\ (/\ q.authorization \in {Some(T_wrong), Some(T_Bearer_sp \o T_wrong)}
                /\ Secret # T_wrong)
               => Rejected(r, <<"Invalid token!">>)

\* a wrong header is turned down although form field and query hold the secret
C4_Witness ==
    \E r \in Busy :
        /\ Secret = T_tok
        /\ req[r] = Only(req[r].path, Some(T_Bearer_sp \o T_wrong), Some(T_tok), Some(T_tok))
        /\ Rejected(r, <<"Invalid token!">>)

T_ubuntu == <<"u","b","u","n","t","u">>

T_debian == <<"d","e","b","i","a","n">>

\* the request of thread r has started its process
Launched == {"EXECUTE", "SUCCESS", "FAILURE", "FAULT"}

\* the latest call of subprocess.run made by thread r
LastCall(r) ==
    calls[CHOOSE i \in DOMAIN calls :
              /\ calls[i].thread = r
              /\ \A j \in DOMAIN calls : calls[j].thread = r => j <= i]

\* C5: a tag that is none of linux, wsl, darwin, windows and does not start
\* with "linux-" is unsupported for both resolvers; the authenticated request
\* gets 400 "Unsupported platform: <tag>" and no process is started.
C5_OtherTagsUnsupported ==
    \A r \in Busy :
        LET tag == detect_platform(host)
        IN  (/\ auth[r] = "authenticated"
             /\ tag \notin {T_linux, T_wsl, T_darwin, T_windows}
             /\ ~StartsWith(tag, T_linux_dash))
            => /\ get_shutdown_command(tag) = None
               /\ get_restart_command(tag) = None
               /\ pc[r] = "UNSUPPORTED"
               /\ response[r].status = 400
               /\ Message(r) = <<"Unsupported platform: ">> \o tag
               /\ proc[r] = NoProcess
               /\ result[r] = NoResult

C7_TestedCommands ==
    \A r \in Busy :
        (/\ pc[r] \in Launched
         /\ platform_id[r] \in {T_linux_dash \o T_ubuntu, T_wsl, T_darwin, T_windows})
        => /\ Len(calls) <= served + 1
           /\ LastCall(r).command =
                IF platform_id[r] = T_windows
                THEN (IF req[r].path = "/shutdown" THEN <<"shutdown /s /t 0">>
                                                    ELSE <<"shutdown /r /t 0">>)
                ELSE (IF req[r].path = "/shutdown" THEN <<"sudo shutdown -h now">>
                                                    ELSE <<"shutdown -r now">>)

\* t is s without its leading and trailing whitespace
IsTrimOf(t, s) ==
    \E i \in 1..(Len(s) + 1) : \E j \in 0..Len(s) :
        /\ t = SubSeq(s, i, j)
        /\ \A k \in 1..Len(s) : (k < i \/ k > j) => s[k] \in Whitespace
        /\ t # <<>> => (t[1] \notin Whitespace /\ t[Len(t)] \notin Whitespace)

\* C8: when run_command has returned, status 0 gives 200 with the fixed
\* success message and the detected tag as 'platform'; a nonzero status gives
\* 500 with the fixed failure message and the trimmed executor text as 'error'.
C8_ResponseFromStatus ==
    \A r \in Busy :
        (pc[r] \in {"SUCCESS", "FAILURE", "FAULT"} /\ ~result[r].raised) =>
            LET down == req[r].path = "/shutdown"
            IN  /\ result[r].code = 0 =>
                    /\ pc[r] = "SUCCESS"
                    /\ response[r].status = 200
                    /\ response[r].body =
                        [message |-> IF down THEN <<"Shutdown command issued">>
                                             ELSE <<"Restart command issued">>,
                         platform |-> detect_platform(host)]
                /\ result[r].code # 0 =>
                    /\ pc[r] = "FAILURE"
                    /\ response[r].status = 500
                    /\ DOMAIN response[r].body = {"message", "error"}
                    /\ Message(r) = IF down THEN <<"Failed to shut down">>
                                            ELSE <<"Failed to restart">>
                    /\ IsTrimOf(response[r].body.error, result[r].text)

\* a failure whose text had whitespace around it
C8_Witness ==
    \E r \in Busy :
        /\ pc[r] = "FAILURE"
        /\ result[r].code = 1
        /\ result[r].text # response[r].body.error

\* the process run of thread r has failed
ProcessFailed(r) == proc[r].kind = "raise" \/ proc[r].returncode # 0

\* C9: whatever way the process run fails, run_command returns a (text,
\* status) pair with nonzero status and no exception leaves it.
C9_NeverRaises ==
    \A r \in Busy :
        (pc[r] \in {"SUCCESS", "FAILURE", "FAULT"} /\ ProcessFailed(r)) =>
            /\ ~result[r].raised
            /\ result[r].code # 0

Abs(n) == IF n < 0 THEN 0 - n ELSE n

\* C10: exit code 0 gives (stdout, 0); a nonzero exit code c gives (a text
\* naming the command and the status, c); a launch, OS or runtime error gives
\* (the error's message, 1).
C10_ThreeShapes ==
    \A r \in Busy :
        pc[r] \in {"SUCCESS", "FAILURE", "FAULT"} =>
            LET p == proc[r]
            IN  /\ (p.kind = "exit" /\ p.returncode = 0) =>
                    result[r] = [raised |-> FALSE, exc |-> "", text |-> p.stdout, code |-> 0]
                /\ (p.kind = "exit" /\ p.returncode # 0) =>
                    /\ ~result[r].raised
                    /\ result[r].code = p.returncode
                    /\ Contains(result[r].text, command[r].val)
                    /\ Contains(result[r].text, <<ToString(Abs(p.returncode))>>)
                /\ (p.kind = "raise" /\ p.exc \in {"OSError", "FileNotFoundError", "RuntimeError"}) =>
                    result[r] = [raised |-> FALSE, exc |-> "", text |-> p.msg, code |-> 1]

\* the shell has exited with 127
C10_Witness ==
    \E r \in Busy :
        /\ pc[r] = "FAILURE"
        /\ proc[r].kind = "exit"
        /\ result[r].code = 127

(***************************************************************************)
(* detect_platform called on its own, over a wider range of hosts          *)
(***************************************************************************)

T_ubuntu_id == <<"u","b","u","n","t","u">>

DetectSystems ==
    { T_Linux, <<"L","I","N","U","X">>, <<"W","i","n","d","o","w","s">>,
      <<"D","a","r","w","i","n">>, <<"F","r","e","e","B","S","D">>,
      <<"O","p","e","n","B","S","D">>, <<"N","e","t","B","S","D">>,
      <<"U","n","s","u","p","p","o","r","t","e","d","O","S">> }

DetectReleases ==
    { <<"5",".","4",".","0","-","1","2","3","-","g","e","n","e","r","i","c">>,
      <<"M","i","c","r","o","s","o","f","t","-","W","S","L">>,
      <<"5",".","1","5","-","m","i","c","r","o","s","o","f","t","-","s","t","d">>,
      <<>> }

DetectDistros == {T_ubuntu_id, <<"d","e","b","i","a","n">>, <<>>}

DetectPlatforms == {T_Linux \o <<"-">> \o T_release, <<"-","x">>, <<>>}

DetectHosts ==
    { Host(sy, re, hd, di, pl) :
        sy \in DetectSystems, re \in DetectReleases, hd \in BOOLEAN,
        di \in DetectDistros, pl \in DetectPlatforms }

InitDetect ==
    /\ environ = None
    /\ host \in DetectHosts
    /\ pc = [r \in Threads |-> "START"]
    /\ req = [r \in Threads |-> NoRequest]
    /\ auth = [r \in Threads |-> "none"]
    /\ platform_id = [r \in Threads |-> <<>>]
    /\ command = [r \in Threads |-> None]
    /\ proc = [r \in Threads |-> NoProcess]
    /\ result = [r \in Threads |-> NoResult]
    /\ response = [r \in Threads |-> NoResponse]
    /\ calls = <<>>
    /\ served = 0
    /\ limiter = LimiterOff
    /\ stack = NoStack

\* result = detect_platform()
DetectCall(r) ==
    /\ pc[r] = "START"
    /\ platform_id' = [platform_id EXCEPT ![r] = detect_platform(host)]
    /\ pc' = [pc EXCEPT ![r] = "DETECTED"]
    /\ UNCHANGED <<environ, host, req, auth, command, proc, result, response,
                   calls, served, limiter, stack>>

\* the caller drops the result
DetectDrop(r) ==
    /\ pc[r] = "DETECTED"
    /\ platform_id' = [platform_id EXCEPT ![r] = <<>>]
    /\ pc' = [pc EXCEPT ![r] = "START"]
    /\ UNCHANGED <<environ, host, req, auth, command, proc, result, response,
                   calls, served, limiter, stack>>

NextDetect == \E r \in Sequential : DetectCall(r) \/ DetectDrop(r)

SpecDetect == InitDetect /\ [][NextDetect]_vars

\* C11: Linux (in any case) with "microsoft" (in any case) in the release
\* gives wsl whatever the distro; Linux otherwise gives "linux-" and the
\* distro value when that is non-empty, plain "linux" when it is empty; any
\* other family gives its lowercased name.
C11_DetectPlatformTable ==
    \A r \in Threads :
        pc[r] = "DETECTED" =>
            LET tag == platform_id[r]
                family == Lower(host.system)
                isLinux == host.system \in {T_Linux, <<"L","I","N","U","X">>}
                isWsl == \/ Contains(host.release, <<"M","i","c","r","o","s","o","f","t">>)
                         \/ Contains(host.release, T_microsoft)
                \* the distro value: distro.id(), or without the distro
                \* package the platform description up to its first hyphen
                dashes == {i \in 1..Len(host.platform) : host.platform[i] = "-"}
                distro == IF host.has_distro THEN host.distro_id
                          ELSE IF dashes = {} THEN host.platform
                          ELSE SubSeq(host.platform, 1,
                                      (CHOOSE i \in dashes : \A j \in dashes : i <= j) - 1)
            IN  /\ (isLinux /\ isWsl) => tag = T_wsl
                /\ (isLinux /\ ~isWsl /\ distro # <<>>) => tag = T_linux_dash \o distro
                /\ (isLinux /\ ~isWsl /\ distro = <<>>) => tag = T_linux
                /\ ~isLinux => tag = family
                /\ host.system = <<"W","i","n","d","o","w","s">> => tag = T_windows
                /\ host.system = <<"D","a","r","w","i","n">> => tag = T_darwin
                /\ host.system = <<"F","r","e","e","B","S","D">>
                   => tag = <<"f","r","e","e","b","s","d">>
                /\ host.system = <<"U","n","s","u","p","p","o","r","t","e","d","O","S">>
                   => tag = <<"u","n","s","u","p","p","o","r","t","e","d","o","s">>

\* a WSL host on which the distro package reports ubuntu
C11_Witness ==
    \E r \in Threads :
        /\ pc[r] = "DETECTED"
        /\ host.system = T_Linux
        /\ host.release = <<"M","i","c","r","o","s","o","f","t","-","W","S","L">>
        /\ host.has_distro /\ host.distro_id = T_ubuntu_id
        /\ platform_id[r] = T_wsl

(***************************************************************************)
(* The server with its Limiter enabled, as app.run starts it               *)
(***************************************************************************)

\* requests that arrive while the Limiter counts
MaxLimited == 6

\* requests without a credential, with the right one and with a wrong one
FewRequests ==
    {q \in Requests :
        /\ q.form = None
        /\ q.args = None
        /\ q.authorization \in {None, Some(T_Bearer_sp \o T_tok), Some(T_Bearer_sp \o T_wrong)}}

\* a host the resolvers know and one they do not
FewHosts == {h \in Hosts : h.system \in {<<"W","i","n","d","o","w","s">>, <<"F","r","e","e","B","S","D">>}}

InitLimit ==
    /\ environ = Some(T_tok)
    /\ host \in FewHosts
    /\ pc = [r \in Threads |-> "START"]
    /\ req = [r \in Threads |-> NoRequest]
    /\ auth = [r \in Threads |-> "none"]
    /\ platform_id = [r \in Threads |-> <<>>]
    /\ command = [r \in Threads |-> None]
    /\ proc = [r \in Threads |-> NoProcess]
    /\ result = [r \in Threads |-> NoResult]
    /\ response = [r \in Threads |-> NoResponse]
    /\ calls = <<>>
    /\ served = 0
    /\ limiter = LimiterOn
    /\ stack = NoStack

index(r) == index_of(r, MaxLimited)

shutdown_limited(r) == shutdown_of(r, FewRequests, MaxLimited)

restart_limited(r) == restart_of(r, FewRequests, MaxLimited)

\* the minute of a route's window is over: its count starts again
window_expires(route) ==
    /\ limiter.hits[route] > 0
    /\ limiter' = [limiter EXCEPT !.hits[route] = 0]
    /\ UNCHANGED <<environ, host, pc, req, auth, platform_id, command, proc, result,
                   response, calls, served, stack>>

NextLimit ==
    \/ \E r \in Sequential :
        \/ index(r)
        \/ shutdown_limited(r)
        \/ shutdown_returns(r)
        \/ restart_limited(r)
        \/ restart_returns(r)
        \/ Respond(r)
    \/ \E route \in Routes : window_expires(route)

SpecLimit == InitLimit /\ [][NextLimit]_vars

\* thread r takes a request of the given route in this step
Takes(r, route) == pc[r] = "START" /\ pc'[r] # "START" /\ req'[r].path = route

C12_ArrivalStep ==
    \A r \in Threads : \A route \in Routes :
        Takes(r, route) /\ limiter.enabled =>
            LET n == limiter.hits[route] + 1
            IN  /\ n <= RouteLimit => pc'[r] # "LIMITED" /\ response'[r].status # 429
                /\ n <= RouteLimit /\ route = "/" =>
                        /\ response'[r].status = 200
                        /\ response'[r].body = [text |-> <<"Hello, World!">>]
                /\ n = RouteLimit + 1 => response'[r].status = 429

Answered(r) == response[r] # NoResponse

\* C13: every response, whatever its route and its status (200, 400, 403,
\* 429 or 500), carries the header Access-Control-Allow-Private-Network
\* with the value 'true'
C13_PrivateNetworkHeader ==
    \A r \in Threads :
        Answered(r) =>
            /\ response[r].status \in {200, 400, 403, 429, 500}
            /\ "Access-Control-Allow-Private-Network" \in DOMAIN response[r].headers
            /\ response[r].headers["Access-Control-Allow-Private-Network"] = "true"

\* a response that is no view's own: the 500 Flask makes of an exception
\* that left the view
C13_Witness ==
    /\ limiter.enabled
    /\ pc[1] = "FAULT"
    /\ response[1].status = 500
    /\ response[1].headers["Access-Control-Allow-Private-Network"] = "true"

\* a credential that is present and empty: form token '' or the header
\* 'Authorization: Bearer ' with nothing after it
EmptyCredential(q) ==
    \/ q = FormField(q.path, <<>>)
    \/ q = Only(q.path, Some(T_Bearer_sp), None, None)

\* C14 as stated: with MY_SECRET_TOKEN unset the empty credential equals the
\* empty secret, so the request is authenticated and goes on to execution.
C14_EmptyMatchesEmpty ==
    \A r \in Busy :
        (~environ.some /\ EmptyCredential(req[r])) => Authenticated(r)

\* C14, amended: with MY_SECRET_TOKEN unset, a request whose credential is
\* present and empty is answered 403 "Token is missing!" before any
\* comparison, and nothing is executed for it.
C14_EmptyIsMissing ==
    \A r \in Busy :
        (~environ.some /\ EmptyCredential(req[r])) =>
            /\ auth[r] = "missing"
            /\ Rejected(r, <<"Token is missing!">>)
            /\ ~command[r].some
            /\ \A i \in DOMAIN calls : calls[i].thread # r

C14_Witness ==
    \E r \in Busy :
        /\ ~environ.some
        /\ req[r] = Only("/shutdown", Some(T_Bearer_sp), None, None)
        /\ Rejected(r, <<"Token is missing!">>)

(***************************************************************************)
(* The server in an environment that changes after it was started          *)
(***************************************************************************)

\* MY_SECRET_TOKEN when the server starts
StartupEnviron == Some(T_tok)

\* what MY_SECRET_TOKEN can be changed to, or back to
ChangedEnvirons == {None, Some(T_tok), Some(T_wrong)}

InitEnv ==
    /\ environ = StartupEnviron
    /\ host \in FewHosts
    /\ pc = [r \in Threads |-> "START"]
    /\ req = [r \in Threads |-> NoRequest]
    /\ auth = [r \in Threads |-> "none"]
    /\ platform_id = [r \in Threads |-> <<>>]
    /\ command = [r \in Threads |-> None]
    /\ proc = [r \in Threads |-> NoProcess]
    /\ result = [r \in Threads |-> NoResult]
    /\ response = [r \in Threads |-> NoResponse]
    /\ calls = <<>>
    /\ served = 0
    /\ limiter = LimiterOff
    /\ stack = NoStack

\* os.environ['MY_SECRET_TOKEN'] is set, changed or deleted from outside
\* the request handling
setenv(v) ==
    /\ v # environ
    /\ environ' = v
    /\ UNCHANGED <<host, pc, req, auth, platform_id, command, proc, result,
                   response, calls, served, limiter, stack>>

shutdown_env(r) == shutdown_of(r, FewRequests, MaxRequests)

restart_env(r) == restart_of(r, FewRequests, MaxRequests)

NextEnv ==
    \/ \E r \in Sequential :
        \/ shutdown_env(r)
        \/ shutdown_returns(r)
        \/ restart_env(r)
        \/ restart_returns(r)
        \/ Respond(r)
    \/ \E v \in ChangedEnvirons : setenv(v)

SpecEnv == InitEnv /\ [][NextEnv]_vars

\* the credential of q is the non-empty text s
Presents(q, s) == s # <<>> /\ Presented(q) = Some(s)

\* C15 as stated: a change of MY_SECRET_TOKEN after startup does not change
\* which credentials are accepted: a request is authenticated exactly if it
\* presents the secret the environment held at startup.
C15_SecretFixedAtStartup ==
    \A r \in Busy :
        auth[r] = "authenticated" <=> Presents(req[r], GetOr(StartupEnviron, <<>>))

C15_ArrivalStep ==
    \A r \in Threads :
        (pc[r] = "START" /\ pc'[r] # "START") =>
            /\ auth'[r] = "authenticated" <=> Presents(req'[r], GetOr(environ, <<>>))
            /\ environ' = environ

C15_ServerStep ==
    (\E r \in Threads : pc'[r] # pc[r]) => environ' = environ

\* C15, amended: the request handling never writes the secret, and each
\* request is authenticated exactly if it presents the value that
\* MY_SECRET_TOKEN has when the request is handled; a change of the variable
\* after startup changes which credentials are accepted from then on.
C15_SecretReadPerRequest == [][C15_ArrivalStep /\ C15_ServerStep]_vars

\* the variable was changed after startup; the changed value is accepted
C15_Witness ==
    \E r \in Busy :
        /\ environ = Some(T_wrong)
        /\ environ # StartupEnviron
        /\ req[r] = BearerHeader(req[r].path, T_wrong)
        /\ Authenticated(r)

\* C16: every request to /shutdown or /restart whose command ends (or that
\* starts none) ends in exactly one of REJECTED (403), UNSUPPORTED (400),
\* FAILURE (500) and SUCCESS (200), with a JSON body that has a message;
\* no error leaves the view as an unhandled fault.
C16_FourTerminalStates ==
    \A r \in Busy :
        (req[r].path \in {"/shutdown", "/restart"} /\ pc[r] # "EXECUTE") =>
            /\ pc[r] \in {"REJECTED", "UNSUPPORTED", "FAILURE", "SUCCESS"}
            /\ response[r].status =
                    (CASE pc[r] = "REJECTED" -> 403
                       [] pc[r] = "UNSUPPORTED" -> 400
                       [] pc[r] = "FAILURE" -> 500
                       [] pc[r] = "SUCCESS" -> 200)
            /\ response[r].headers["Content-Type"] = "application/json"
            /\ "message" \in DOMAIN response[r].body

(***************************************************************************)
(* The server with two requests at a time                                  *)
(***************************************************************************)

InitConc ==
    /\ environ = Some(T_tok)
    /\ host \in FewHosts
    /\ pc = [r \in Threads |-> "START"]
    /\ req = [r \in Threads |-> NoRequest]
    /\ auth = [r \in Threads |-> "none"]
    /\ platform_id = [r \in Threads |-> <<>>]
    /\ command = [r \in Threads |-> None]
    /\ proc = [r \in Threads |-> NoProcess]
    /\ result = [r \in Threads |-> NoResult]
    /\ response = [r \in Threads |-> NoResponse]
    /\ calls = <<>>
    /\ served = 0
    /\ limiter = LimiterOff
    /\ stack = NoStack

shutdown_threaded(r) == shutdown_of(r, FewRequests, MaxRequests)

restart_threaded(r) == restart_of(r, FewRequests, MaxRequests)

NextConc ==
    \E r \in Threads :
        \/ shutdown_threaded(r)
        \/ shutdown_returns(r)
        \/ restart_threaded(r)
        \/ restart_returns(r)
        \/ Respond(r)

SpecConc == InitConc /\ [][NextConc]_vars

\* the status a request is to end with, from nothing but its own
\* credential, the platform tag and what its own process did
OwnStatus(q, tag, p) ==
    IF ~Presents(q, Secret) THEN 403
    ELSE IF ~(tag \in {T_linux, T_wsl, T_darwin, T_windows} \/ StartsWith(tag, T_linux)) THEN 400
    ELSE IF p.kind = "exit" /\ p.returncode = 0 THEN 200
    ELSE 500

\* the command of the route of q on this host
PlatformCommand(q) ==
    IF q.path = "/shutdown"
    THEN get_shutdown_command(detect_platform(host))
    ELSE get_restart_command(detect_platform(host))

C17_OwnOutcome ==
    \A r \in Busy :
        Answered(r) => response[r].status = OwnStatus(req[r], detect_platform(host), proc[r])

C17_LaunchStep ==
    \A r \in Threads :
        (pc[r] = "START" /\ pc'[r] = "EXECUTE") =>
            calls' = Append(calls, [thread |-> r, path |-> req'[r].path,
                                    command |-> PlatformCommand(req'[r]).val])

C17_OwnStep ==
    \A r \in Threads : \A t \in Threads \ {r} :
        pc'[r] # pc[r] =>
            /\ pc'[t] = pc[t]
            /\ req'[t] = req[t]
            /\ auth'[t] = auth[t]
            /\ command'[t] = command[t]
            /\ proc'[t] = proc[t]
            /\ result'[t] = result[t]
            /\ response'[t] = response[t]

\* C17: requests are not serialised against each other: of two authenticated
\* requests that overlap each starts the platform command, so that it is
\* executed twice; a step of one request leaves the other as it is, and the
\* outcome of each follows from its own credential, the platform tag and
\* what its own process did
C17_EachRunsItsOwn ==
    /\ [](C17_OwnOutcome)
    /\ [][C17_LaunchStep /\ C17_OwnStep]_vars

\* two authenticated shutdown requests overlap: the command was started
\* twice, the second has failed while the first is still running
C17_Witness ==
    /\ pc[1] = "EXECUTE"
    /\ pc[2] = "FAILURE"
    /\ req[1].path = "/shutdown"
    /\ req[2].path = "/shutdown"
    /\ Len(calls) = 2
    /\ calls[1].thread = 1
    /\ calls[2].thread = 2
    /\ calls[1].command = calls[2].command

C18_Waiting ==
    \A r \in Threads :
        pc[r] = "EXECUTE" => ~Answered(r) /\ proc[r] = NoProcess

C18_EndStep ==
    \A r \in Threads :
        (pc[r] = "EXECUTE" /\ pc'[r] # "EXECUTE") =>
            /\ proc'[r] \in Processes
            /\ result'[r] = run_command(command[r].val, proc'[r])
            /\ pc'[r] \in {"SUCCESS", "FAILURE", "FAULT"}
            /\ Answered(r)'

\* C18: execution is synchronous and has no timeout and no cancellation: a
\* request in EXECUTE has no response, and the only step that takes it out
\* of EXECUTE is the end of its process, which gives it its response; as
\* long as the process does not end the request stays in EXECUTE
C18_OnlyProcessEndAnswers ==
    /\ [](C18_Waiting)
    /\ [][C18_EndStep]_vars

\* the command of thread 1 is still running and its request still waiting
\* after a later request on thread 2 was executed and answered
C18_Witness ==
    /\ pc[1] = "EXECUTE"
    /\ ~Answered(1)
    /\ pc[2] = "START"
    /\ served = 1
    /\ Len(calls) = 2
    /\ calls[1].thread = 1
    /\ calls[2].thread = 2

(***************************************************************************)
(* manage_stack.py: one run of main                                        *)
(*                                                                         *)
(* stack.pc is the last step of main that was completed; stack.log has an  *)
(* entry for every command that was started and for the look for .env      *)
(***************************************************************************)

\* the variables of the server, which a run of manage_stack.py leaves alone
server == <<environ, host, pc, req, auth, platform_id, command, proc, result,
            response, calls, served, limiter>>

\* what subprocess.run(command, check=False) does: the command exits with
\* 0, exits with another code, or its executable is not found
Outcomes == {"zero", "nonzero", "notfound"}

\* the exception that leaves run_with_output, "" for none
run_with_output(o) ==
    IF o = "zero" THEN ""
    ELSE IF o = "nonzero" THEN "RuntimeError"
    ELSE "FileNotFoundError"

\* the log with one more command; gpu tells whether the command line names
\* the GPU override file
Started(cmd, gpu, o) == Append(stack.log, [cmd |-> cmd, gpu |-> gpu, outcome |-> o])

\* build_compose_command names the GPU override file if asked to and it exists
build_compose_command(include_gpu_override) == include_gpu_override /\ stack.gpu_file

\* main after a step that was left by exception exc ("" for none) inside a
\* try that catches the classes in caught: the next step, or sys.exit(1), or
\* the interpreter's exit with a traceback
After(s, exc, caught, next) ==
    IF exc = "" THEN [s EXCEPT !.pc = next]
    ELSE [s EXCEPT !.pc = "exited", !.exit = 1, !.traceback = exc \notin caught]

\* main is entered: the arguments are parsed
main ==
    /\ stack.pc = "off"
    /\ \E skip_deps \in BOOLEAN, restart_only \in BOOLEAN, clean_shutdown \in BOOLEAN,
          gpu_file \in BOOLEAN :
            stack' = [NoStack EXCEPT !.pc = "main", !.skip_deps = skip_deps,
                                     !.restart_only = restart_only,
                                     !.clean_shutdown = clean_shutdown,
                                     !.gpu_file = gpu_file]
    /\ UNCHANGED server

\* python_executable = resolve_python_interpreter(), outside every try
resolve_python_interpreter ==
    /\ stack.pc = "main"
    /\ ~stack.clean_shutdown
    /\ \E exc \in {"", "RuntimeError"} : stack' = After(stack, exc, {}, "python")
    /\ UNCHANGED server

\* use_gpu_override = should_use_gpu_override(), outside every try
should_use_gpu_override ==
    /\ \/ stack.pc = "python"
       \/ stack.pc = "main" /\ stack.clean_shutdown
    /\ IF ~stack.gpu_file
       THEN stack' = [stack EXCEPT !.pc = "gpu", !.use_gpu_override = FALSE]
       ELSE \E o \in Outcomes, available \in BOOLEAN :
                stack' = After([stack EXCEPT !.log = Started("docker info", FALSE, o),
                                             !.use_gpu_override = available /\ o # "notfound"],
                               IF o = "notfound" THEN "FileNotFoundError" ELSE "",
                               {}, "gpu")
    /\ UNCHANGED server

\* install_python_dependencies(python_executable, skip=args.skip_deps)
install_python_dependencies ==
    /\ stack.pc = "gpu"
    /\ ~stack.clean_shutdown
    /\ IF stack.skip_deps
       THEN stack' = [stack EXCEPT !.pc = "deps"]
       ELSE \E o \in Outcomes :
                stack' = After([stack EXCEPT !.log = Started("pip install", FALSE, o)],
                               run_with_output(o), {"RuntimeError"}, "deps")
    /\ UNCHANGED server

\* running = compose_is_running(use_gpu_override)
compose_is_running ==
    /\ stack.pc = "deps"
    /\ \E o \in Outcomes, containers \in BOOLEAN :
            stack' = After([stack EXCEPT
                                !.log = Started("ps", build_compose_command(stack.use_gpu_override), o),
                                !.running = containers /\ o = "zero"],
                           run_with_output(o), {"RuntimeError"}, "ps")
    /\ UNCHANGED server

\* ensure_env_file(), in the try that catches RuntimeError
ensure_env_file ==
    /\ stack.pc = "ps"
    /\ \E exists \in BOOLEAN :
            stack' = After([stack EXCEPT !.log = Started(".env", FALSE,
                                                        IF exists THEN "zero" ELSE "missing")],
                           IF exists THEN "" ELSE "FileNotFoundError",
                           {"RuntimeError"}, "env")
    /\ UNCHANGED server

\* mutant: the stack that is running is stopped although --restart-only
\* was given
compose_down_AlwaysDown ==
    /\ stack.pc = "env"
    /\ IF stack.running
       THEN \E o \in Outcomes :
                stack' = After([stack EXCEPT
                                    !.log = Started("down", build_compose_command(stack.use_gpu_override), o)],
                               run_with_output(o), {"RuntimeError"}, "down")
       ELSE stack' = [stack EXCEPT !.pc = "down"]
    /\ UNCHANGED server

\* if running and not args.restart_only: 'docker compose down'
compose_down ==
    /\ stack.pc = "env"
    /\ IF stack.running /\ ~stack.restart_only
       THEN \E o \in Outcomes :
                stack' = After([stack EXCEPT
                                    !.log = Started("down", build_compose_command(stack.use_gpu_override), o)],
                               run_with_output(o), {"RuntimeError"}, "down")
       ELSE stack' = [stack EXCEPT !.pc = "down"]
    /\ UNCHANGED server

\* 'docker compose up -d'
compose_up ==
    /\ stack.pc = "down"
    /\ \E o \in Outcomes :
            stack' = After([stack EXCEPT
                                !.log = Started("up -d", build_compose_command(stack.use_gpu_override), o)],
                           run_with_output(o), {"RuntimeError"}, "up")
    /\ UNCHANGED server

\* start_flask_server(python_executable); main returns when the server does
start_flask_server ==
    /\ stack.pc = "up"
    /\ \E entrypoint \in BOOLEAN :
        IF ~entrypoint
        THEN stack' = After(stack, "FileNotFoundError",
                            {"RuntimeError", "FileNotFoundError"}, "exited")
        ELSE \E o \in Outcomes :
                stack' = After([stack EXCEPT !.log = Started("flask", FALSE, o)],
                               run_with_output(o),
                               {"RuntimeError", "FileNotFoundError"}, "exited")
    /\ UNCHANGED server

\* --clean-shutdown: 'down' with the GPU override file, if there is one
clean_down_gpu ==
    /\ stack.pc = "gpu"
    /\ stack.clean_shutdown
    /\ IF stack.gpu_file
       THEN \E o \in Outcomes :
                stack' = After([stack EXCEPT !.log = Started("down", build_compose_command(TRUE), o)],
                               IF o = "notfound" THEN "FileNotFoundError" ELSE "",
                               {}, "clean_gpu")
       ELSE stack' = [stack EXCEPT !.pc = "clean_gpu"]
    /\ UNCHANGED server

\* --clean-shutdown: 'down' with the base file only, then sys.exit(0)
clean_down_base ==
    /\ stack.pc = "clean_gpu"
    /\ \E o \in Outcomes :
            stack' = After([stack EXCEPT !.log = Started("down", build_compose_command(FALSE), o)],
                           IF o = "notfound" THEN "FileNotFoundError" ELSE "",
                           {}, "exited")
    /\ UNCHANGED server

InitStack ==
    /\ environ \in Environs
    /\ host \in Hosts
    /\ pc = [r \in Threads |-> "START"]
    /\ req = [r \in Threads |-> NoRequest]
    /\ auth = [r \in Threads |-> "none"]
    /\ platform_id = [r \in Threads |-> <<>>]
    /\ command = [r \in Threads |-> None]
    /\ proc = [r \in Threads |-> NoProcess]
    /\ result = [r \in Threads |-> NoResult]
    /\ response = [r \in Threads |-> NoResponse]
    /\ calls = <<>>
    /\ served = 0
    /\ limiter = LimiterOff
    /\ stack = NoStack

NextStack ==
    \/ main
    \/ resolve_python_interpreter
    \/ should_use_gpu_override
    \/ install_python_dependencies
    \/ compose_is_running
    \/ ensure_env_file
    \/ compose_down
    \/ compose_up
    \/ start_flask_server
    \/ clean_down_gpu
    \/ clean_down_base

SpecStack == InitStack /\ [][NextStack]_vars

\* positions in the log where command cmd was started
At(cmd) == {i \in DOMAIN stack.log : stack.log[i].cmd = cmd}

\* command cmd was started before position j and exited 0
ExitedZeroBefore(cmd, j) ==
    \E i \in At(cmd) : i < j /\ stack.log[i].outcome = "zero"

\* the normal startup flow has ended
StartupEnded == stack.pc = "exited" /\ ~stack.clean_shutdown

\* 'docker compose down' is run if and only if the stack was found running
\* and --restart-only was not given
DownIffRunning ==
    StartupEnded => (At("down") # {} <=> (stack.running /\ ~stack.restart_only))

\* the same, and the .env file was found to exist
DownIffRunningAndEnv ==
    StartupEnded =>
        (At("down") # {} <=>
            (stack.running /\ ~stack.restart_only /\ ExitedZeroBefore(".env", Len(stack.log) + 1)))

StartupOrdered ==
    ~stack.clean_shutdown =>
        /\ \A j \in At("down") : stack.running /\ ~stack.restart_only
        /\ \A j \in At("up -d") :
                /\ ExitedZeroBefore(".env", j)
                /\ (stack.running /\ ~stack.restart_only) => ExitedZeroBefore("down", j)
        /\ \A j \in At("flask") : ExitedZeroBefore("up -d", j)

StartupFailureStops ==
    ~stack.clean_shutdown =>
        \A i \in DOMAIN stack.log :
            (stack.log[i].cmd \in {"pip install", "ps", "down", "up -d"}
                /\ stack.log[i].outcome # "zero") =>
                    /\ i = Len(stack.log)
                    /\ stack.pc = "exited"
                    /\ stack.exit = 1

\* C19, amended: in the normal startup flow 'docker compose down' is run if
\* and only if the stack was found running, --restart-only was not given and
\* the .env file was found to exist; 'up -d' is run only after .env was found
\* and any required 'down' exited 0; the Flask server is launched only after
\* 'up -d' exited 0; a failure of dependency installation, of 'ps', of 'down'
\* or of 'up -d' ends the run with exit code 1 and no later step.
C19_GatedStartup ==
    /\ DownIffRunningAndEnv
    /\ StartupOrdered
    /\ StartupFailureStops

\* C19 as stated: as above, but with 'down' run if and only if the stack
\* was found running and --restart-only was not given, whether or not the
\* .env file exists.
C19_StartupAsStated ==
    /\ DownIffRunning
    /\ StartupOrdered
    /\ StartupFailureStops

\* the stack was running, .env was found, 'down' and 'up -d' exited 0 and
\* the Flask server was launched
C19_Witness ==
    /\ StartupEnded
    /\ stack.running
    /\ ~stack.restart_only
    /\ \E i \in At("down"), j \in At("up -d"), k \in At("flask") :
            /\ i < j
            /\ j < k
            /\ stack.log[i].outcome = "zero"
            /\ stack.log[j].outcome = "zero"

\* the run under --clean-shutdown has ended
CleanEnded == stack.pc = "exited" /\ stack.clean_shutdown

\* with --clean-shutdown, as long as every command could be started: the
\* base-only 'down' is started, the exit code is 0 and nothing is installed
\* or launched
CleanShutdownOfStartedCommands ==
    (CleanEnded /\ \A i \in DOMAIN stack.log : stack.log[i].outcome # "notfound") =>
        /\ \E i \in At("down") : ~stack.log[i].gpu
        /\ stack.exit = 0
        /\ At("pip install") \cup At("up -d") \cup At("flask") = {}

\* C20: with --clean-shutdown the base-only 'down' is attempted whether or
\* not the 'down' with the GPU override was attempted or failed, the run
\* ends with exit code 0 even if both failed, and dependency installation,
\* 'up -d' and the Flask server are never started.
C20_CleanShutdown ==
    /\ stack.clean_shutdown =>
            At("pip install") \cup At("up -d") \cup At("flask") = {}
    /\ CleanEnded =>
            /\ \E i \in At("down") : ~stack.log[i].gpu
            /\ stack.exit = 0

====
